---- MODULE Spec2Model ----
(***************************************************************************)
(* A model of the PyCNL name tree (python/pycnl/namespace.py): the trie of *)
(* Namespace nodes, the state machine of each node, the propagation of     *)
(* state changes to the OnStateChanged callbacks of a node and of its      *)
(* ancestors, and the longest-prefix search that answers an Interest.      *)
(*                                                                         *)
(* A Namespace object is an entry of the sequence heap; its position is    *)
(* its identity (0 is Python's None).  Every operation of the class is an  *)
(* operator from a machine record m (the objects, the callback calls made  *)
(* so far, the pending exception) to the machine record after the call,    *)
(* so that a call made from inside a callback is part of the operation.    *)
(***************************************************************************)
EXTENDS Integers, Sequences, FiniteSets, TLC

\* ------------------------------------------------------------------ bounds
\* Name components are 1..NComps, ordered as integers.
NComps == 2
\* The longest name a caller passes in (the root name has one component).
MaxLen == 3
\* The number of Namespace objects of a tree without callbacks.
MaxNodes == 4
\* The number of Namespace objects of a tree with callbacks.
MaxFireNodes == 3
\* The number of callback ids handed out.
MaxCallbacks == 2
\* Data packet payloads are 1..NPayloads.
NPayloads == 2
\* The number of threads that call getNextCallbackId.
NThreads == 2
\* The number of calls of getNextCallbackId by the threads.
MaxIds == 4
\* Sequence numbers are 0..MaxSeq.
MaxSeq == 9
\* The greatest pipeline size an application passes in.
MaxPipeline == 3
\* The callLater timers the Face holds.
MaxTimers == 1
\* The pulls of the _latest packet that are in flight.
MaxPulls == 1

\* ------------------------------------------------------- NamespaceState
NAME_EXISTS == 0
INTEREST_EXPRESSED == 1
INTEREST_TIMEOUT == 2
DATA_RECEIVED == 3
CONTENT_READY == 7

\* ------------------------------------------------------------ pyndn types
Comps == 1..NComps
\* The component of the implicit SHA-256 digest (Name.Component type 1).
DigestComp == 0
RootName == <<1>>

RECURSIVE SeqsUpTo(_, _)
SeqsUpTo(S, n) ==
    IF n = 0 THEN {<<>>}
    ELSE LET shorter == SeqsUpTo(S, n - 1)
         IN  shorter \cup {Append(s, c) : s \in {t \in shorter : Len(t) = n - 1}, c \in S}

\* The names a caller passes in: the names under the root name, and the
\* empty name and the names of one component, which are not under it.
Names ==
    {n \in SeqsUpTo(Comps, MaxLen) : Len(n) <= 1 \/ n[1] = RootName[1]}
Payloads == 1..NPayloads

\* Name.isPrefixOf
IsPrefixOf(a, b) ==
    /\ Len(a) <= Len(b)
    /\ \A i \in 1..Len(a) : a[i] = b[i]

\* Name.getPrefix(-1)
DropLast(name) == SubSeq(name, 1, Len(name) - 1)

\* Interest.matchesData: the name of the Interest is a prefix of the name of
\* the Data packet and the selectors of the Interest accept the packet. The
\* selectors are the set of payloads they let through.
HasDigest(name) == Len(name) >= 1 /\ name[Len(name)] = DigestComp

\* Interest.matchesData. An Interest name that ends with the implicit digest
\* asks for the packet of exactly the name before it; any other Interest name
\* is a prefix of the packet name. The selectors and the digest of the
\* Interest are the set of payloads they let through.
MatchesData(interest, data) ==
    /\ IF HasDigest(interest.name)
       THEN DropLast(interest.name) = data.name
       ELSE IsPrefixOf(interest.name, data.name)
    /\ data.content \in interest.accepts

\* ---------------------------------------------------------------- objects
\* What a registered onStateChanged function does when it is called.
\*   log      returns
\*   raise    raises an exception
\*   remove   calls namespace.removeCallback(t + callbackId): itself for t = 0
\*   setData  on DATA_RECEIVED calls changedNamespace.setData with a packet of
\*            its own for the same name
\*   attach   on NAME_EXISTS calls changedNamespace.setData with a packet of
\*            its own for the same name
CallbackKinds ==
    {[k |-> "log", t |-> 0], [k |-> "raise", t |-> 0], [k |-> "setData", t |-> 0]}
        \cup {[k |-> "remove", t |-> t] : t \in 0..1}

\* The payload of the packet a "setData" callback attaches.
ReentrantPayload == NPayloads

\* A _transformContent: None, or a function of the handler of the node at. It
\* calls onContentTransformed before it returns ("inline") or it keeps it
\* and calls it later ("later").
NoTransform == [k |-> "none", at |-> 0]
TransformKinds == {"inline", "later"}

\* The content a _transformContent makes of the content of a packet (the
\* decrypted content, for one): another value.
Transformed(content) == content + NPayloads

\* Namespace.__init__
NewNamespace(name, parent) ==
    [name |-> name,
     parent |-> parent,
     children |-> <<>>,
     sortedChildrenKeys |-> <<>>,
     state |-> NAME_EXISTS,
     data |-> {},
     content |-> {},
     onStateChangedCallbacks |-> <<>>,
     transformContent |-> NoTransform]

\* No call is in progress: the application has the control.
Idle == [op |-> "idle", node |-> 0, name |-> <<>>, content |-> 0, accepts |-> {},
         exc |-> "none", ret |-> 0, best |-> {}, sent |-> <<>>, created |-> 0,
         transforms |-> <<>>]

VARIABLES
    heap,            \* the Namespace objects, by identity
    lastCallbackId,  \* Namespace._lastCallbackId
    events,          \* the _setState calls of the last operation
    log,             \* the callback calls of the last operation, in order
    lastOp,          \* the last operation: its arguments and its outcome
    lock,            \* Namespace._lastCallbackIdLock: the thread that holds it, or 0
    threads,         \* each thread: its position in getNextCallbackId, its value
    issued,          \* the ids getNextCallbackId has returned, in the order of the lock
    handlers,        \* the GeneralizedObjectStreamHandler objects: none or one
    stream,          \* the nodes under the namespace of the handler
    face,            \* the Face of the handler: callLater timers, _latest pulls
    hop,             \* the last call of the handler: its arguments, its outcome
    childComponents, \* the list the application has got from getChildComponents
    pendingTransforms \* the _transformContent calls that have not called back

Threads == 1..NThreads

threadVars == <<lock, threads, issued>>
\* The fields of the handler and of its Face.
handlerVars == <<handlers, stream, face, hop>>
\* What the operations of the name tree leave alone.
offTree == <<threadVars, handlerVars, childComponents>>
vars == <<heap, lastCallbackId, events, log, lastOp, lock, threads, issued,
          handlers, stream, face, hop, childComponents, pendingTransforms>>

\* A Python list the application holds: the list of the keys of a node
\* (owner is the node) or a list of its own with its items.
NoList == [node |-> 0, list |-> [owner |-> 0, items |-> <<>>], got |-> <<>>]

\* A node for a sequence number under the namespace of the handler and its
\* _meta child: whether the nodes exist, the state of the _meta node, whether
\* the object is there, and the GeneralizedObjectHandlers attached to it.
NoSequenceNode ==
    [exists |-> FALSE, meta |-> NAME_EXISTS, data |-> FALSE, obj |-> FALSE, attached |-> 0]

\* No call of the handler is in progress.
HIdle == [op |-> "idle", arg |-> 0, exc |-> "none", before |-> <<>>,
          callLater |-> <<>>, latestNeeded |-> 0, fetched |-> <<>>, reported |-> <<>>,
          served |-> <<>>, targets |-> <<>>]

Machine(h) ==
    [heap |-> h, events |-> <<>>, log |-> <<>>, exc |-> "none", ret |-> 0,
     best |-> {}, sent |-> <<>>, transforms |-> <<>>]

Init ==
    /\ heap = <<NewNamespace(RootName, 0)>>
    /\ lastCallbackId = 0
    /\ events = <<>>
    /\ log = <<>>
    /\ lastOp = Idle
    /\ lock = 0
    /\ threads = [t \in Threads |-> [pc |-> "out", value |-> 0]]
    /\ issued = <<>>
    /\ handlers = <<>>
    /\ stream = [n \in 0..MaxSeq |-> NoSequenceNode]
    /\ face = [timers |-> <<>>, latestPulls |-> 0]
    /\ hop = HIdle
    /\ childComponents = NoList
    /\ pendingTransforms = <<>>

\* ------------------------------------------------------------- operations
RECURSIVE GetChildLoop(_, _, _)
RECURSIVE SetStateLoop(_, _, _, _, _)
RECURSIVE FireLoop(_, _, _, _, _, _, _)
RECURSIVE Call(_, _, _, _, _, _)
RECURSIVE SetData(_, _, _)

Raise(m, what) == [m EXCEPT !.exc = what]
Return(m, value) == [m EXCEPT !.ret = value]

\* A list that takes a new key at its end.
AppendKey(keys, x) == Append(keys, x)

\* bisect.insort: insert x after the entries that are <= x.
Insort(keys, x) ==
    LET at == Cardinality({i \in 1..Len(keys) : keys[i] <= x})
    IN  SubSeq(keys, 1, at) \o <<x>> \o SubSeq(keys, at + 1, Len(keys))

HasCallback(callbacks, id) == \E i \in 1..Len(callbacks) : callbacks[i].id = id

KindOf(callbacks, id) ==
    callbacks[CHOOSE i \in 1..Len(callbacks) : callbacks[i].id = id].kind

\* dict.pop(callbackId, None)
Pop(callbacks, id) == SelectSeq(callbacks, LAMBDA c : c.id # id)

\* Namespace.removeCallback
RemoveCallback(m, self, callbackId) ==
    [m EXCEPT !.heap[self].onStateChangedCallbacks = Pop(@, callbackId)]

\* The node and its ancestors, the node first (the walk over _parent).
RECURSIVE PathToRoot(_, _)
PathToRoot(h, n) == IF n = 0 THEN <<>> ELSE <<n>> \o PathToRoot(h, h[n].parent)

OnPath(h, n) == {PathToRoot(h, n)[i] : i \in 1..Len(PathToRoot(h, n))}

\* The callbacks registered at the nodes of a set, as <<node, callback id>>.
RegisteredAt(h, ns) ==
    {p \in ns \X (1..MaxCallbacks) : HasCallback(h[p[1]].onStateChangedCallbacks, p[2])}

\* A loop over a copy of the items of the dict: it calls the function that was
\* registered when the copy was made.
CallbackOfCopy(callbacks, snapshot, id) ==
    {snapshot[i].kind : i \in {j \in 1..Len(snapshot) : snapshot[j].id = id}}

\* _fireOnStateChanged, line 427: the callback to call for an id of the copied
\* keys, none when a callback called before has removed it.
CallbackToCall(callbacks, snapshot, id) ==
    IF HasCallback(callbacks, id) THEN {KindOf(callbacks, id)} ELSE {}

\* A _fireOnStateChanged without the try.
NotCaught(m) == m

\* _fireOnStateChanged, the except clause: the exception of a callback is
\* logged and goes no further.
Caught(m) == [m EXCEPT !.exc = "none"]

\* A _setState that fires the callbacks of the changed node only.
NoNextNamespace(h, namespace) == 0

\* _setState, line 421: the next namespace whose callbacks are fired.
NextNamespace(h, namespace) == h[namespace].parent

\* A dispatch that hands each callback the state the node has at the call.
CurrentState(node, state) == node.state

\* _fireOnStateChanged, line 430: the callback is handed the state argument
\* of _fireOnStateChanged, the one _setState was called with.
StateOfEvent(node, state) == state

\* One pass of the for loop of _fireOnStateChanged, from key i on.
FireLoop(m, self, changed, state, ev, snapshot, i) ==
    IF i > Len(snapshot) \/ m.exc # "none" THEN m
    ELSE LET id == snapshot[i].id
             todo == CallbackToCall(
                         m.heap[self].onStateChangedCallbacks, snapshot, id)
             called == IF todo = {} THEN m
                       ELSE Caught(Call(m, self, changed,
                                        StateOfEvent(m.heap[changed], state),
                                        [id |-> id, kind |-> CHOOSE k \in todo : TRUE], ev))
         IN  FireLoop(called, self, changed, state, ev, snapshot, i + 1)

\* The keys in the reverse of the order of their insertion.
ReversedKeys(callbacks) ==
    [i \in 1..Len(callbacks) |-> callbacks[Len(callbacks) + 1 - i]]

\* _fireOnStateChanged, line 425: list(dict.keys()), the keys of the dict in
\* the order of their insertion (each with the function it had when copied,
\* which the loop does not use).
CopyOfKeys(callbacks) == callbacks

\* Namespace._fireOnStateChanged
FireOnStateChanged(m, self, changed, state, ev) ==
    FireLoop(m, self, changed, state, ev,
             CopyOfKeys(m.heap[self].onStateChangedCallbacks), 1)

\* The while loop of _setState.
SetStateLoop(m, changed, namespace, state, ev) ==
    IF namespace = 0 \/ m.exc # "none" THEN m
    ELSE SetStateLoop(FireOnStateChanged(m, namespace, changed, state, ev),
                      changed, NextNamespace(m.heap, namespace), state, ev)

\* Namespace._setState. The event records the callbacks that are registered
\* on the path to the root when the state is set.
SetState(m, self, state) ==
    LET ev == Len(m.events) + 1
        m1 == [m EXCEPT
                 !.heap[self].state = state,
                 !.events = Append(@,
                     [node |-> self, state |-> state,
                      registered |-> RegisteredAt(m.heap, OnPath(m.heap, self))])]
    IN  SetStateLoop(m1, self, self, state, ev)

\* Namespace._onContentTransformed
OnContentTransformed(m, self, content) ==
    SetState([m EXCEPT !.heap[self].content = {content}], self, CONTENT_READY)

\* A setData that does nothing only for the packet that is attached.
SamePacketAttached(node, data) == node.data = {data}

\* setData, line 188: a Data packet is already attached.
AlreadyAttached(node, data) == node.data # {}

\* A setData that takes a packet of any name.
AnyName(node, data) == FALSE

\* setData, line 191: the name of the packet is not the name of the node.
NameMismatch(node, data) == data.name # node.name

\* Namespace._getTransformContent: the _transformContent of the node or of
\* its nearest ancestor that has one.
RECURSIVE GetTransformContent(_, _)
GetTransformContent(h, namespace) ==
    IF namespace = 0 THEN NoTransform
    ELSE IF h[namespace].transformContent # NoTransform THEN h[namespace].transformContent
    ELSE GetTransformContent(h, h[namespace].parent)

\* setData, line 201: transformContent(data, self._onContentTransformed);
\* m.transforms records the call.
CallTransformContent(m, self, data, transformContent) ==
    LET m1 == [m EXCEPT !.transforms =
                  Append(@, [node |-> self, data |-> data, by |-> transformContent])]
    IN  IF transformContent.k = "inline"
        THEN OnContentTransformed(m1, self, Transformed(data.content))
        ELSE m1

\* Namespace.setData. A _transformContent is handed the packet and calls
\* _onContentTransformed when it is done.
SetData(m, self, data) ==
    IF AlreadyAttached(m.heap[self], data) THEN m
    ELSE IF NameMismatch(m.heap[self], data) THEN Raise(m, "RuntimeError")
    ELSE LET m1 == [m EXCEPT !.heap[self].data = {data}]
             m2 == SetState(m1, self, DATA_RECEIVED)
             transformContent == GetTransformContent(m2.heap, self)
         IN  IF m2.exc # "none" THEN m2
             ELSE IF transformContent # NoTransform
             THEN CallTransformContent(m2, self, data, transformContent)
             ELSE OnContentTransformed(m2, self, data.content)

\* A call of a registered onStateChanged(namespace, changedNamespace, state,
\* callbackId): the call is logged, then the function does what its kind says.
Call(m, self, changed, state, cb, ev) ==
    LET m1 == [m EXCEPT !.log = Append(@,
                  [ev |-> ev, owner |-> self, changed |-> changed,
                   state |-> state, id |-> cb.id, kind |-> cb.kind])]
    IN  CASE cb.kind.k = "log" -> m1
          [] cb.kind.k = "raise" -> Raise(m1, "Exception")
          [] cb.kind.k = "remove" -> RemoveCallback(m1, self, cb.id + cb.kind.t)
          [] cb.kind.k = "attach" ->
                IF state = NAME_EXISTS
                THEN SetData(m1, changed,
                         [name |-> m1.heap[changed].name, content |-> ReentrantPayload])
                ELSE m1
          [] cb.kind.k = "setData" ->
                IF state = DATA_RECEIVED
                THEN SetData(m1, changed,
                         [name |-> m1.heap[changed].name, content |-> ReentrantPayload])
                ELSE m1

\* _createChild, line 403: the node whose _setState announces the new child.
AnnouncedBy(self, child) == self

\* Namespace._createChild
CreateChild(m, self, component, fireCallbacks) ==
    LET child == Len(m.heap) + 1
        node == m.heap[self]
        h1 == [m.heap EXCEPT
                 ![self].children = (component :> child) @@ @,
                 ![self].sortedChildrenKeys = Insort(@, component)]
        m1 == [m EXCEPT
                 !.heap = Append(h1, NewNamespace(Append(node.name, component), self))]
        m2 == IF fireCallbacks
              THEN SetState(m1, AnnouncedBy(self, child), NAME_EXISTS)
              ELSE m1
    IN  Return(m2, child)

\* A getChild that does not look the component up.
NeverHasChild(node, component) == FALSE

\* getChild, line 143: the next component is the key of a child.
HasChild(node, component) == component \in DOMAIN node.children

\* A getChild that fires the callbacks for every node it creates.
AlwaysLeaf(size, descendantSize) == TRUE

\* getChild, line 147: only the node for the whole name is a leaf.
IsLeaf(size, descendantSize) == size = descendantSize - 1

\* A getChild that does not check the prefix.
NoPrefixViolation(name, descendantName) == FALSE

\* getChild, line 133: the name of this node is not a prefix of the name.
PrefixViolation(name, descendantName) == ~IsPrefixOf(name, descendantName)

\* The while loop of getChild(Name).
GetChildLoop(m, descendantNamespace, descendantName) ==
    LET node == m.heap[descendantNamespace]
        size == Len(node.name)
    IN  IF ~(size < Len(descendantName)) \/ m.exc # "none"
        THEN Return(m, descendantNamespace)
        ELSE LET nextComponent == descendantName[size + 1]
             IN  IF HasChild(node, nextComponent)
                 THEN GetChildLoop(m, node.children[nextComponent], descendantName)
                 ELSE LET m1 == CreateChild(m, descendantNamespace, nextComponent,
                                            IsLeaf(size, Len(descendantName)))
                      IN  GetChildLoop(m1, m1.ret, descendantName)

\* Namespace.getChild with a Name.
GetChild(m, self, descendantName) ==
    IF PrefixViolation(m.heap[self].name, descendantName)
    THEN Raise(m, "RuntimeError")
    ELSE GetChildLoop(m, self, descendantName)

\* Namespace.getChild with a Name.Component.
GetChildComponent(m, self, component) ==
    IF HasChild(m.heap[self], component)
    THEN Return(m, m.heap[self].children[component])
    ELSE CreateChild(m, self, component, TRUE)

\* ---------------------------------------------------------------- Interest
RECURSIVE FindBestMatchName(_, _, _)
RECURSIVE ScanChildren(_, _, _, _, _)

\* A scan that keeps the match of the child it visits last.
AlwaysReplaces(childBestMatch, bestMatch) == TRUE

\* A scan that keeps the first of the matches of the same length.
ReplacesIfLonger(childBestMatch, bestMatch) == Len(childBestMatch) > Len(bestMatch)

\* _findBestMatchName, line 494: the match of a child replaces the best one.
Replaces(childBestMatch, bestMatch) == Len(childBestMatch) >= Len(bestMatch)

\* The for loop of _findBestMatchName, from the key at i down to the first.
\* A match is a set: empty for None, else the one name.
ScanChildren(h, namespace, interest, i, bestMatch) ==
    IF i < 1 THEN bestMatch
    ELSE LET node == h[namespace]
             child == node.children[node.sortedChildrenKeys[i]]
             childBestMatch == FindBestMatchName(h, child, interest)
             next == IF /\ childBestMatch # {}
                        /\ \/ bestMatch = {}
                           \/ \A c \in childBestMatch, b \in bestMatch : Replaces(c, b)
                     THEN childBestMatch
                     ELSE bestMatch
         IN  ScanChildren(h, namespace, interest, i - 1, next)

\* Namespace._findBestMatchName
FindBestMatchName(h, namespace, interest) ==
    LET node == h[namespace]
        bestMatch == ScanChildren(h, namespace, interest,
                                  Len(node.sortedChildrenKeys), {})
    IN  IF bestMatch # {} THEN bestMatch
        ELSE IF node.data # {} /\ \A d \in node.data : MatchesData(interest, d)
             THEN {node.name}
             ELSE {}

\* _onInterest, lines 459-461: the Interest name without the implicit digest.
StripDigest(name) == IF HasDigest(name) THEN DropLast(name) ELSE name

\* Namespace._onInterest. face.putData appends the packet to m.sent.
OnInterest(m, self, interest) ==
    LET interestName == StripDigest(interest.name)
    IN  IF ~IsPrefixOf(m.heap[self].name, interestName) THEN m
        ELSE LET m1 == GetChild(m, self, interestName)
                 bestMatch == FindBestMatchName(m1.heap, m1.ret, interest)
                 m2 == [m1 EXCEPT !.best = bestMatch]
             IN  IF bestMatch = {} THEN m2
                 ELSE LET m3 == GetChild(m2, self, CHOOSE b \in bestMatch : TRUE)
                          data == m3.heap[m3.ret].data
                      IN  [m3 EXCEPT !.sent = Append(@, CHOOSE d \in data : TRUE)]

\* ----------------------------------------------------------------- actions
Nodes == 1..Len(heap)

\* An operation is called when the application has the control.
Called == lastOp = Idle

\* The _transformContent calls of an operation that have kept their
\* onContentTransformed.
Deferred(transforms) == SelectSeq(transforms, LAMBDA t : t.by.k = "later")

\* The call returns what the machine holds; maxNodes bounds the tree, and
\* waiting are the _transformContent calls that have yet to call back.
FinishWith(m, op, maxNodes, waiting) ==
    /\ Called
    /\ Len(m.heap) <= maxNodes
    /\ heap' = m.heap
    /\ events' = m.events
    /\ log' = m.log
    /\ lastOp' = [op EXCEPT !.exc = m.exc,
                            !.ret = IF m.exc = "none" THEN m.ret ELSE 0,
                            !.best = m.best, !.sent = m.sent,
                            !.created = Len(m.heap) - Len(heap),
                            !.transforms = m.transforms]
    /\ pendingTransforms' = waiting \o Deferred(m.transforms)
    /\ UNCHANGED <<lastCallbackId, offTree>>

Finish(m, op, maxNodes) == FinishWith(m, op, maxNodes, pendingTransforms)

\* namespace.getChild(name)
DoGetChild(n, name, maxNodes) ==
    Finish(GetChild(Machine(heap), n, name),
           [Idle EXCEPT !.op = "getChild", !.node = n, !.name = name], maxNodes)

\* namespace.getChild(component)
DoGetChildComponent(n, c, maxNodes) ==
    /\ Len(heap[n].name) < MaxLen
    /\ Finish(GetChildComponent(Machine(heap), n, c),
              [Idle EXCEPT !.op = "getChildComponent", !.node = n,
                           !.name = Append(heap[n].name, c)], maxNodes)

\* namespace.setData(data)
DoSetData(n, data) ==
    Finish(SetData(Machine(heap), n, data),
           [Idle EXCEPT !.op = "setData", !.node = n, !.name = data.name,
                        !.content = data.content], Len(heap))

\* namespace.addOnStateChanged(onStateChanged); getNextCallbackId gives the id.
DoAddOnStateChanged(n, kind) ==
    /\ Called
    /\ lastCallbackId < MaxCallbacks
    /\ lastCallbackId' = lastCallbackId + 1
    /\ heap' = [heap EXCEPT ![n].onStateChangedCallbacks =
                   Append(@, [id |-> lastCallbackId + 1, kind |-> kind])]
    /\ UNCHANGED <<events, log, lastOp, offTree, pendingTransforms>>

\* namespace.removeCallback(callbackId)
DoRemoveCallback(n, id) ==
    /\ Called
    /\ heap' = RemoveCallback(Machine(heap), n, id).heap
    /\ UNCHANGED <<lastCallbackId, events, log, lastOp, offTree, pendingTransforms>>

\* The application registers the prefix of the root with the Face:
\* root.setFace(face, onRegisterFailed).
Registered == {n \in Nodes : heap[n].parent = 0}

\* The Face calls namespace._onInterest of a registered node with an Interest.
DoOnInterest(n, interest) ==
    Finish(OnInterest(Machine(heap), n, interest),
           [Idle EXCEPT !.op = "onInterest", !.node = n, !.name = interest.name,
                        !.accepts = interest.accepts], MaxNodes)

\* The call returns to the application, which drops the record of the call.
ReturnToCaller ==
    /\ ~Called
    /\ lastOp' = Idle
    /\ events' = <<>>
    /\ log' = <<>>
    /\ UNCHANGED <<heap, lastCallbackId, offTree, pendingTransforms>>

\* The Interests the Face delivers: a name, with or without the implicit
\* digest, and what the selectors accept.
Interests ==
    [name : Names \cup {Append(n, DigestComp) : n \in Names},
     accepts : SUBSET Payloads \ {{}}]

\* The Data packets the application attaches: the packet of a node of the
\* tree, attached to that node or to another one.
PacketsFor(payloads) == [name : {heap[n].name : n \in Nodes}, content : payloads]

\* The name tree without callbacks.
Next ==
    \/ \E n \in Nodes, name \in Names : DoGetChild(n, name, MaxNodes)
    \/ \E n \in Nodes, c \in Comps : DoGetChildComponent(n, c, MaxNodes)
    \/ \E n \in Nodes, data \in PacketsFor(Payloads) : DoSetData(n, data)
    \/ \E n \in Registered, interest \in Interests : DoOnInterest(n, interest)
    \/ ReturnToCaller

Spec == Init /\ [][Next]_vars

\* The payload of the packets of the tree with callbacks.
FirePayloads == {1}

\* The name tree with OnStateChanged callbacks.
NextFire ==
    \/ \E n \in Nodes, name \in Names : DoGetChild(n, name, MaxFireNodes)
    \/ \E n \in Nodes, c \in Comps : DoGetChildComponent(n, c, MaxFireNodes)
    \/ \E n \in Nodes, data \in PacketsFor(FirePayloads) : DoSetData(n, data)
    \/ \E n \in Nodes, kind \in CallbackKinds : DoAddOnStateChanged(n, kind)
    \/ \E n \in Nodes, id \in 1..MaxCallbacks : DoRemoveCallback(n, id)
    \/ ReturnToCaller

SpecFire == Init /\ [][NextFire]_vars

\* --------------------------------------------------------- getChildComponents
\* A getChildComponents that returns the list of the node itself.
SameList(node, self) == [owner |-> self, items |-> <<>>]

\* getChildComponents, line 171: self._sortedChildrenKeys[:], a new list with
\* the items of the list of the node.
FreshList(node, self) == [owner |-> 0, items |-> node.sortedChildrenKeys]

\* The items of a list the application holds, when it reads them.
ItemsOf(h, list) ==
    IF list.owner = 0 THEN list.items ELSE h[list.owner].sortedChildrenKeys

\* components = namespace.getChildComponents(); got is what the list holds
\* when the call returns.
DoGetChildComponents(n) ==
    /\ Called
    /\ childComponents' =
          [node |-> n, list |-> FreshList(heap[n], n),
           got |-> ItemsOf(heap, FreshList(heap[n], n))]
    /\ UNCHANGED <<heap, lastCallbackId, events, log, lastOp, threadVars, handlerVars,
                   pendingTransforms>>

\* The name tree and an application that keeps the list of the children of
\* a node while it creates nodes.
NextKeys ==
    \/ \E n \in Nodes, name \in Names : DoGetChild(n, name, MaxNodes)
    \/ \E n \in Nodes, c \in Comps : DoGetChildComponent(n, c, MaxNodes)
    \/ \E n \in Nodes : DoGetChildComponents(n)
    \/ ReturnToCaller

SpecKeys == Init /\ [][NextKeys]_vars

\* ------------------------------------------------------- _transformContent
\* The handler of a node sets its _transformContent.
DoSetTransformContent(n, kind) ==
    /\ Called
    /\ heap[n].transformContent = NoTransform
    /\ heap' = [heap EXCEPT ![n].transformContent = [k |-> kind, at |-> n]]
    /\ UNCHANGED <<lastCallbackId, events, log, lastOp, offTree, pendingTransforms>>

\* All but the entry at i.
Without(transforms, i) ==
    SubSeq(transforms, 1, i - 1) \o SubSeq(transforms, i + 1, Len(transforms))

\* A _transformContent that has kept its onContentTransformed calls it with
\* the content it has made.
DoOnContentTransformed(i) ==
    /\ i \in 1..Len(pendingTransforms)
    /\ LET t == pendingTransforms[i]
       IN  FinishWith(OnContentTransformed(Machine(heap), t.node,
                                           Transformed(t.data.content)),
                      [Idle EXCEPT !.op = "onContentTransformed", !.node = t.node,
                                   !.name = t.data.name, !.content = t.data.content],
                      Len(heap), Without(pendingTransforms, i))

\* The names of one branch of the tree: a _transformContent is looked for
\* on the way from a node to the root.
BranchNames == {name \in Names : \A i \in 1..Len(name) : name[i] = RootName[1]}

\* The name tree with _transformContent functions and OnStateChanged
\* callbacks that return.
NextHook ==
    \/ \E n \in Nodes, name \in BranchNames : DoGetChild(n, name, MaxFireNodes)
    \/ \E n \in Nodes, data \in PacketsFor(FirePayloads) : DoSetData(n, data)
    \/ \E n \in Nodes : DoAddOnStateChanged(n, [k |-> "log", t |-> 0])
    \/ \E n \in Nodes, kind \in TransformKinds : DoSetTransformContent(n, kind)
    \/ \E i \in 1..MaxFireNodes : DoOnContentTransformed(i)
    \/ ReturnToCaller

SpecHook == Init /\ [][NextHook]_vars

\* What the onStateChanged functions that change the state of a node do.
ReentrantKinds == {[k |-> "log", t |-> 0], [k |-> "attach", t |-> 0]}

\* The name tree with OnStateChanged callbacks that attach packets.
NextReentrant ==
    \/ \E n \in Nodes, name \in Names : DoGetChild(n, name, MaxFireNodes)
    \/ \E n \in Nodes, data \in PacketsFor(FirePayloads) : DoSetData(n, data)
    \/ \E n \in Nodes, kind \in ReentrantKinds : DoAddOnStateChanged(n, kind)
    \/ ReturnToCaller

SpecReentrant == Init /\ [][NextReentrant]_vars

\* -------------------------------------------------------- getNextCallbackId
\* A with statement that does not wait for the lock.
NoLock(holder) == TRUE

\* threading.Lock: acquire returns when no thread holds the lock.
LockFree(holder) == holder = 0

\* with Namespace._lastCallbackIdLock: the thread enters getNextCallbackId
\* and acquires the lock.
Acquire(t) ==
    /\ threads[t].pc = "out"
    /\ Len(issued) + Cardinality({u \in Threads : threads[u].pc # "out"}) < MaxIds
    /\ LockFree(lock)
    /\ lock' = t
    /\ threads' = [threads EXCEPT ![t].pc = "with"]
    /\ UNCHANGED <<heap, lastCallbackId, events, log, lastOp, issued, handlerVars,
                 childComponents, pendingTransforms>>

\* Namespace._lastCallbackId += 1, the read.
Load(t) ==
    /\ threads[t].pc = "with"
    /\ threads' = [threads EXCEPT ![t] = [pc |-> "loaded", value |-> lastCallbackId]]
    /\ UNCHANGED <<heap, lastCallbackId, events, log, lastOp, lock, issued, handlerVars,
                 childComponents, pendingTransforms>>

\* Namespace._lastCallbackId += 1, the write.
Store(t) ==
    /\ threads[t].pc = "loaded"
    /\ lastCallbackId' = threads[t].value + 1
    /\ threads' = [threads EXCEPT ![t].pc = "stored"]
    /\ UNCHANGED <<heap, events, log, lastOp, lock, issued, handlerVars,
                 childComponents, pendingTransforms>>

\* return Namespace._lastCallbackId: the value is read inside the with.
ReadResult(t) ==
    /\ threads[t].pc = "stored"
    /\ threads' = [threads EXCEPT ![t] = [pc |-> "return", value |-> lastCallbackId]]
    /\ UNCHANGED <<heap, lastCallbackId, events, log, lastOp, lock, issued, handlerVars,
                 childComponents, pendingTransforms>>

\* The with statement releases the lock and the call returns the value.
Release(t) ==
    /\ threads[t].pc = "return"
    /\ lock' = 0
    /\ issued' = Append(issued, [thread |-> t, id |-> threads[t].value])
    /\ threads' = [threads EXCEPT ![t] = [pc |-> "out", value |-> 0]]
    /\ UNCHANGED <<heap, lastCallbackId, events, log, lastOp, handlerVars,
                   childComponents, pendingTransforms>>

\* Threads that call getNextCallbackId.
NextIds ==
    \/ \E t \in Threads : Acquire(t)
    \/ \E t \in Threads : Load(t)
    \/ \E t \in Threads : Store(t)
    \/ \E t \in Threads : ReadResult(t)
    \/ \E t \in Threads : Release(t)

SpecIds == Init /\ [][NextIds]_vars

\* ------------------------------------------ GeneralizedObjectStreamHandler
\* The handler is attached to the root of the tree. The nodes under it (the
\* _latest node, the sequence number nodes, their _meta children) are kept
\* in stream and face; the calls the handler makes on them (objectNeeded,
\* callLater, the GeneralizedObjectHandler) are recorded, not run.
offHandler == <<heap, lastCallbackId, events, log, lastOp, threadVars,
                childComponents, pendingTransforms>>

\* The states of a node that namespace.py of src/ does not have.
INTEREST_NETWORK_NACK == 9
OBJECT_READY == 14

\* The freshness period of a new handler, in milliseconds.
DefaultFreshnessPeriod == 1000
\* The freshness periods an application sets and a _latest packet carries.
FreshnessPeriods == {DefaultFreshnessPeriod, 2 * DefaultFreshnessPeriod}
\* The pipeline sizes an application passes in.
PipelineSizes == (0 - 1)..MaxPipeline
SequenceNumbers == 0..MaxSeq
\* What an onSequencedGeneralizedObject of the application does.
CompletionKinds == {"none", "log", "raise"}

\* A handler that takes the pipeline size as it is given.
NoClamp(pipelineSize) == pipelineSize

\* Lines 70-71 and 175-176: a negative pipeline size is 0.
ClampPipelineSize(pipelineSize) == IF pipelineSize < 0 THEN 0 ELSE pipelineSize

\* GeneralizedObjectStreamHandler.__init__; namespace is 0 for None, else the
\* node the handler is attached to (_onNamespaceSet then sets
\* _latestNamespace and registers _onObjectNeeded and _onStateChanged).
NewHandler(namespace, pipelineSize, onSequencedGeneralizedObject) ==
    [namespace |-> namespace,
     pipelineSize |-> ClampPipelineSize(pipelineSize),
     onSequencedGeneralizedObject |-> onSequencedGeneralizedObject,
     latestNamespace |-> namespace,
     producedSequenceNumber |-> 0 - 1,
     latestPacketFreshnessPeriod |-> DefaultFreshnessPeriod,
     nRequestedSequenceNumbers |-> 0,
     maxRequestedSequenceNumber |-> 0 - 1,
     nReportedSequenceNumbers |-> 0,
     maxReportedSequenceNumber |-> 0 - 1]

\* The handler, the nodes of its stream and what a call has done so far.
HMachine ==
    [handler |-> handlers[1], stream |-> stream, exc |-> "none",
     callLater |-> <<>>, latestNeeded |-> 0, fetched |-> <<>>, reported |-> <<>>,
     served |-> <<>>, targets |-> <<>>]

\* GeneralizedObjectStreamHandler.setPipelineSize
SetPipelineSize(s, pipelineSize) ==
    LET size == ClampPipelineSize(pipelineSize)
    IN  IF size = 0 /\ s.handler.pipelineSize > 0 THEN Raise(s, "RuntimeError")
        ELSE IF size > 0 /\ s.handler.pipelineSize = 0 THEN Raise(s, "RuntimeError")
        ELSE [s EXCEPT !.handler.pipelineSize = size]

\* GeneralizedObjectHandler.setObject on the node of the sequence number: the
\* object is published there.
PublishObject(s, sequenceNumber) ==
    [s EXCEPT !.stream[sequenceNumber] = [@ EXCEPT !.exists = TRUE, !.obj = TRUE,
                                                   !.data = TRUE,
                                                   !.meta = CONTENT_READY]]

\* GeneralizedObjectStreamHandler.setObject
SetObject(s, sequenceNumber) ==
    IF s.handler.namespace = 0 THEN Raise(s, "RuntimeError")
    ELSE PublishObject([s EXCEPT !.handler.producedSequenceNumber = sequenceNumber],
                       sequenceNumber)

\* An addObject that publishes at the sequence number of the last object.
SameNumber(s) == SetObject(s, s.handler.producedSequenceNumber)

\* GeneralizedObjectStreamHandler.addObject
AddObject(s) == SetObject(s, s.handler.producedSequenceNumber + 1)

\* setLatestPacketFreshnessPeriod, for a period that is not negative.
SetLatestPacketFreshnessPeriod(s, period) ==
    [s EXCEPT !.handler.latestPacketFreshnessPeriod = period]

\* ---- the consumer
RECURSIVE RequestLoop(_, _, _, _)
RECURSIVE OnGeneralizedObject(_, _, _)

\* The node of a sequence number, also of one beyond the bound (a call that
\* fetches beyond the bound is not taken).
SequenceNode(s, sequenceNumber) ==
    IF sequenceNumber \in SequenceNumbers THEN s.stream[sequenceNumber]
    ELSE NoSequenceNode

\* self.namespace[sequence number][_meta]: the nodes are created.
WithSequenceMeta(s, sequenceNumber) ==
    IF sequenceNumber \in SequenceNumbers
    THEN [s EXCEPT !.stream[sequenceNumber].exists = TRUE]
    ELSE s

\* GeneralizedObjectHandler(sequenceNamespace, onGeneralizedObject): a handler
\* with the callback of the sequence number is attached to the node.
AttachObjectHandler(s, sequenceNumber) ==
    IF sequenceNumber \in SequenceNumbers
    THEN [s EXCEPT !.stream[sequenceNumber].attached = @ + 1]
    ELSE s

\* The object of the node is there: the packets have arrived and the
\* GeneralizedObjectHandlers of the node call their onGeneralizedObject.
RECURSIVE ObjectArrives(_, _, _, _)
ObjectArrives(s, sequenceNumber, sync, left) ==
    IF left = 0 THEN s
    ELSE ObjectArrives(OnGeneralizedObject(s, sequenceNumber, sync),
                       sequenceNumber, sync, left - 1)

Received(s, sequenceNumber) ==
    [s EXCEPT !.stream[sequenceNumber] =
                 [@ EXCEPT !.meta = CONTENT_READY, !.data = TRUE, !.obj = TRUE]]

\* sequenceMeta.objectNeeded(): the fetch of the sequence number is issued.
\* The object of a sequence number of sync is there before the call returns.
ObjectNeeded(s, sequenceNumber, sync) ==
    LET s1 == [s EXCEPT !.fetched = Append(@, sequenceNumber)]
    IN  IF sequenceNumber \notin SequenceNumbers THEN s1
        ELSE IF sequenceNumber \in sync
        THEN ObjectArrives(Received(s1, sequenceNumber), sequenceNumber, sync,
                           s1.stream[sequenceNumber].attached)
        ELSE [s1 EXCEPT !.stream[sequenceNumber].meta = INTEREST_EXPRESSED]

\* A scan that requests a sequence number again.
NeverRequested(node) == FALSE

\* _requestNewSequenceNumbers, lines 346-347: the Data packet is there or
\* the request has been made.
AlreadyRequested(node) == node.data \/ node.meta >= INTEREST_EXPRESSED

\* The while loop of _requestNewSequenceNumbers.
RequestLoop(s, sequenceNumber, nOutstandingSequenceNumbers, sync) ==
    IF ~(nOutstandingSequenceNumbers < s.handler.pipelineSize) THEN s
    ELSE LET next == sequenceNumber + 1
             s1 == WithSequenceMeta(s, next)
         IN  IF AlreadyRequested(SequenceNode(s1, next))
             THEN RequestLoop(s1, next, nOutstandingSequenceNumbers, sync)
             ELSE LET s2 == [AttachObjectHandler(s1, next) EXCEPT
                               !.handler.nRequestedSequenceNumbers = @ + 1,
                               !.handler.maxRequestedSequenceNumber =
                                   IF next > @ THEN next ELSE @]
                  IN  RequestLoop(ObjectNeeded(s2, next, sync), next,
                                  nOutstandingSequenceNumbers + 1, sync)

\* GeneralizedObjectStreamHandler._requestNewSequenceNumbers
RequestNewSequenceNumbers(s, sync) ==
    RequestLoop(s, s.handler.maxReportedSequenceNumber,
                s.handler.nRequestedSequenceNumbers
                    - s.handler.nReportedSequenceNumbers, sync)

\* A call of onSequencedGeneralizedObject(sequenceNumber, ...): the call is
\* recorded, then the function does what its kind says.
CallCompletion(s, sequenceNumber) ==
    LET s1 == [s EXCEPT !.reported = Append(@, sequenceNumber)]
    IN  IF s.handler.onSequencedGeneralizedObject = "raise"
        THEN Raise(s1, "Exception")
        ELSE s1

\* An onGeneralizedObject without the try.
CompletionNotCaught(s) == s

\* Lines 366-367: the exception of onSequencedGeneralizedObject is logged.
CompletionCaught(s) == [s EXCEPT !.exc = "none"]

\* The onGeneralizedObject of _makeOnGeneralizedObject(sequenceNumber).
OnGeneralizedObject(s, sequenceNumber, sync) ==
    LET s1 == IF s.handler.onSequencedGeneralizedObject # "none"
              THEN CompletionCaught(CallCompletion(s, sequenceNumber))
              ELSE s
        s2 == [s1 EXCEPT
                 !.handler.nReportedSequenceNumbers = @ + 1,
                 !.handler.maxReportedSequenceNumber =
                     IF sequenceNumber > @ THEN sequenceNumber ELSE @]
    IN  IF s1.exc # "none" THEN s1
        ELSE IF s2.handler.pipelineSize > 0 THEN RequestNewSequenceNumbers(s2, sync)
        ELSE s2

\* The nodes _onStateChanged and _onObjectNeeded are called for: the node of
\* the handler, its _latest child, a version child of _latest, the node of a
\* sequence number, its _meta child, and any other node under the handler.
ChangedNamespaces ==
    [kind : {"namespace", "latest", "versioned", "other"}, seq : {0}]
        \cup [kind : {"sequence", "meta"}, seq : SequenceNumbers]

\* No freshness period in the MetaInfo of a packet (None).
NoFreshnessPeriod == 0 - 1

\* The _latest packets: the names of the DelegationSet and the freshness
\* period. A name is the sequence number of an immediate child of the node
\* of the handler, or MaxSeq + 1 for any other name.
ForeignName == MaxSeq + 1
LatestPackets(targets) ==
    [delegations : {<<>>} \cup {<<t>> : t \in targets \cup {ForeignName}},
     freshnessPeriod : FreshnessPeriods \cup {NoFreshnessPeriod}]

\* A handler that takes the failure of any fetch for the one of the highest.
AnyRequested(s, changedNamespace) ==
    s.handler.pipelineSize > 0 /\ changedNamespace.kind = "meta"

\* Lines 265-271: the _meta node of the highest requested sequence number.
IsHighestRequested(s, changedNamespace) ==
    /\ s.handler.pipelineSize > 0
    /\ changedNamespace.kind = "meta"
    /\ changedNamespace.seq = s.handler.maxRequestedSequenceNumber

\* Lines 295-297: the target is an immediate child of the node of the
\* handler whose last component is a sequence number.
IsSequenceTarget(targetName) == targetName \in SequenceNumbers

\* Lines 261-263 and 328-329: face.callLater(delay, _latest.objectNeeded).
CallLater(s, delay) == [s EXCEPT !.callLater = Append(@, delay)]

\* self._latestNamespace.objectNeeded(True): the _latest packet is pulled.
LatestObjectNeeded(s) == [s EXCEPT !.latestNeeded = @ + 1]

\* A handler that pulls the _latest packet again at once.
RetryAtOnce(s) == LatestObjectNeeded(s)

\* Lines 259-264: the pull of the _latest packet has failed; the next one
\* is made after the freshness period of the handler.
LatestFailed(s) == CallLater(s, s.handler.latestPacketFreshnessPeriod)

\* A handler that waits for the whole freshness period of the packet.
WholePeriod(freshnessPeriod) == freshnessPeriod

\* Line 329: freshnessPeriod / 2 (the periods of the model are even).
HalfPeriod(freshnessPeriod) == freshnessPeriod \div 2

\* A handler of pipeline size 0 that fetches the target of every packet.
AlwaysRequests(node) == TRUE

\* Line 311: make sure we didn't already request it.
NotYetRequested(node) == node.meta < INTEREST_EXPRESSED

\* A handler that keeps its count of requests when it follows a packet.
KeepsRequested(s, sequenceNumber) ==
    [s EXCEPT !.handler.maxReportedSequenceNumber = sequenceNumber - 1]

\* Lines 317-319: the pipeline starts again at the target.
ResetPipeline(s, sequenceNumber) ==
    [s EXCEPT !.handler.maxReportedSequenceNumber = sequenceNumber - 1,
              !.handler.nRequestedSequenceNumbers =
                  s.handler.nReportedSequenceNumbers]

\* Lines 302-320: the target of the _latest packet has no object yet.
FetchTarget(s, sequenceNumber, sync) ==
    IF s.handler.pipelineSize = 0
    THEN LET s1 == WithSequenceMeta(s, sequenceNumber)
         IN  IF NotYetRequested(s1.stream[sequenceNumber])
             THEN ObjectNeeded(AttachObjectHandler(s1, sequenceNumber),
                               sequenceNumber, sync)
             ELSE s1
    ELSE RequestNewSequenceNumbers(ResetPipeline(s, sequenceNumber), sync)

\* Lines 322-329: with pipeline size 0 the next pull of _latest is scheduled.
ScheduleNextLatest(s, packet) ==
    IF s.handler.pipelineSize = 0
    THEN IF packet.freshnessPeriod = NoFreshnessPeriod \/ packet.freshnessPeriod < 0
         THEN s
         ELSE CallLater(s, HalfPeriod(packet.freshnessPeriod))
    ELSE s

\* A handler that reports an error for a packet it cannot follow.
ReportsInvalidTarget(s) == Raise(s, "RuntimeError")

\* Lines 292-293 and 298-299: a packet without a usable target is dropped
\* by a plain return.
NotFollowed(s) == s

\* Line 300: targetNamespace = self.namespace[targetName]; the node of the
\* target is looked up, which creates it.
TargetNamespace(s, targetName) ==
    [WithSequenceMeta(s, targetName) EXCEPT !.targets = Append(@, targetName)]

\* Lines 288-329: the versioned _latest packet is decoded and followed.
OnLatestPacket(s, packet, sync) ==
    IF Len(packet.delegations) <= 0 THEN NotFollowed(s)
    ELSE LET targetName == packet.delegations[1]
         IN  IF ~IsSequenceTarget(targetName) THEN NotFollowed(s)
             ELSE LET s1 == TargetNamespace(s, targetName)
                      s2 == IF ~s1.stream[targetName].obj
                            THEN FetchTarget(s1, targetName, sync)
                            ELSE s1
                  IN  ScheduleNextLatest(s2, packet)

\* GeneralizedObjectStreamHandler._onStateChanged; packet is the Data packet
\* of changedNamespace when it is a version child of _latest.
OnStateChanged(s, changedNamespace, state, packet, sync) ==
    IF (state = INTEREST_TIMEOUT \/ state = INTEREST_NETWORK_NACK)
          /\ changedNamespace.kind = "latest"
    THEN LatestFailed(s)
    ELSE IF (state = INTEREST_TIMEOUT \/ state = INTEREST_NETWORK_NACK)
          /\ IsHighestRequested(s, changedNamespace)
    THEN LatestObjectNeeded(s)
    ELSE IF ~(state = OBJECT_READY /\ changedNamespace.kind = "versioned") THEN s
    ELSE OnLatestPacket(s, packet, sync)

\* A producer that answers before it has published.
AlwaysAnswers(handler) == TRUE

\* Line 230: an object has been published.
HasProduced(handler) == handler.producedSequenceNumber >= 0

\* GeneralizedObjectStreamHandler._onObjectNeeded. The _latest packet the
\* producer makes is recorded in served; serializeObject makes its node
\* OBJECT_READY, which the _onStateChanged of the handler is called for.
OnObjectNeeded(s, neededNamespace, sync) ==
    IF neededNamespace.kind = "namespace" THEN LatestObjectNeeded(s)
    ELSE IF neededNamespace.kind = "latest" /\ HasProduced(s.handler)
    THEN LET packet == [delegations |-> <<s.handler.producedSequenceNumber>>,
                        freshnessPeriod |-> s.handler.latestPacketFreshnessPeriod]
         IN  OnStateChanged([s EXCEPT !.served = Append(@, packet)],
                            [kind |-> "versioned", seq |-> 0], OBJECT_READY, packet, sync)
    ELSE s

\* A call of the handler is made when the application has the control.
HCalled == hop = HIdle /\ Len(handlers) = 1

\* The call returns: the handler and its nodes are what the machine holds,
\* the Face has the timers and the pulls of the call.
HFinish(s, op, arg, f) ==
    /\ HCalled
    /\ Len(f.timers) + Len(s.callLater) <= MaxTimers
    /\ f.latestPulls + s.latestNeeded <= MaxPulls
    /\ \A n \in 1..Len(s.fetched) : s.fetched[n] <= MaxSeq
    /\ handlers' = <<s.handler>>
    /\ stream' = s.stream
    /\ face' = [timers |-> f.timers \o s.callLater,
                latestPulls |-> f.latestPulls + s.latestNeeded]
    /\ hop' = [op |-> op, arg |-> arg, exc |-> s.exc, before |-> handlers[1],
               callLater |-> s.callLater, latestNeeded |-> s.latestNeeded,
               fetched |-> s.fetched, reported |-> s.reported, served |-> s.served,
               targets |-> s.targets]
    /\ UNCHANGED offHandler

\* handler = GeneralizedObjectStreamHandler(namespace, pipelineSize, on...)
Construct(namespace, pipelineSize, onSequencedGeneralizedObject) ==
    /\ handlers = <<>>
    /\ handlers' = <<NewHandler(namespace, pipelineSize, onSequencedGeneralizedObject)>>
    /\ UNCHANGED <<stream, face, hop, offHandler>>

DoSetPipelineSize(pipelineSize) ==
    HFinish(SetPipelineSize(HMachine, pipelineSize), "setPipelineSize", pipelineSize, face)

DoSetObject(sequenceNumber) ==
    HFinish(SetObject(HMachine, sequenceNumber), "setObject", sequenceNumber, face)

DoAddObject ==
    /\ HCalled
    /\ handlers[1].producedSequenceNumber < MaxSeq
    /\ HFinish(AddObject(HMachine), "addObject", 0, face)

DoSetLatestPacketFreshnessPeriod(period) ==
    HFinish(SetLatestPacketFreshnessPeriod(HMachine, period),
            "setLatestPacketFreshnessPeriod", period, face)

\* An Interest for the _latest packet arrives at the producer: the _latest
\* node calls _onObjectNeeded of the handler.
DoLatestNeeded ==
    /\ HCalled
    /\ handlers[1].namespace # 0
    /\ HFinish(OnObjectNeeded(HMachine, [kind |-> "latest", seq |-> 0], {}),
               "latestNeeded", 0, face)

\* The call returns to the application, which drops the record of the call.
HReturnToCaller ==
    /\ hop # HIdle
    /\ hop' = HIdle
    /\ UNCHANGED <<handlers, stream, face, offHandler>>

\* The sequence numbers a producer publishes.
ProducedNumbers == 0..MaxPipeline

\* The producer: the handler publishes objects and is configured.
NextProducer ==
    \/ \E namespace \in 0..1, pipelineSize \in PipelineSizes :
          Construct(namespace, pipelineSize, "none")
    \/ \E pipelineSize \in PipelineSizes : DoSetPipelineSize(pipelineSize)
    \/ \E sequenceNumber \in ProducedNumbers : DoSetObject(sequenceNumber)
    \/ DoAddObject
    \/ \E period \in FreshnessPeriods : DoSetLatestPacketFreshnessPeriod(period)
    \/ DoLatestNeeded
    \/ HReturnToCaller

SpecProducer == Init /\ [][NextProducer]_vars

\* ---- the consumer: the application and the events of the Face
\* The application calls objectNeeded on the node of the handler, which calls
\* _onObjectNeeded of the handler with that node.
DoObjectNeeded ==
    /\ HCalled
    /\ handlers[1].namespace # 0
    /\ HFinish(OnObjectNeeded(HMachine, [kind |-> "namespace", seq |-> 0], {}),
               "objectNeeded", 0, face)

\* The Face has an answer for a pull of the _latest packet.
LatestAnswered == [face EXCEPT !.latestPulls = @ - 1]

\* A pull of the _latest packet times out or gets a network NACK: the state
\* of the _latest node changes.
LatestFails(state) ==
    /\ HCalled
    /\ face.latestPulls > 0
    /\ HFinish(OnStateChanged(HMachine, [kind |-> "latest", seq |-> 0], state,
                              <<>>, {}),
               "latestFails", state, LatestAnswered)

\* A pull of the _latest packet gets the packet: the version child of the
\* _latest node is OBJECT_READY.
LatestArrives(packet, sync) ==
    /\ HCalled
    /\ face.latestPulls > 0
    /\ HFinish(OnStateChanged(HMachine, [kind |-> "versioned", seq |-> 0],
                              OBJECT_READY, packet, sync),
               "latestArrives", packet, LatestAnswered)

\* The fetch of a sequence number is in flight.
InFlight(sequenceNumber) == stream[sequenceNumber].meta = INTEREST_EXPRESSED

\* The fetch of a sequence number times out or gets a network NACK: the
\* state of the _meta node changes.
SequenceFails(sequenceNumber, state) ==
    /\ HCalled
    /\ InFlight(sequenceNumber)
    /\ HFinish(OnStateChanged(
                   [HMachine EXCEPT !.stream[sequenceNumber].meta = state],
                   [kind |-> "meta", seq |-> sequenceNumber], state, <<>>, {}),
               "sequenceFails", sequenceNumber, face)

\* The packets of the object of a sequence number arrive.
ObjectCompletes(sequenceNumber, sync) ==
    /\ HCalled
    /\ InFlight(sequenceNumber)
    /\ HFinish(ObjectArrives(Received(HMachine, sequenceNumber), sequenceNumber,
                             sync, stream[sequenceNumber].attached),
               "objectCompletes", sequenceNumber, face)

\* A state change the handler has no use for.
OtherStateChange(changedNamespace, state) ==
    /\ HCalled
    /\ handlers[1].namespace # 0
    /\ HFinish(OnStateChanged(HMachine, changedNamespace, state, <<>>, {}),
               "otherStateChange", state, face)

\* A timer of callLater fires: lambda: self._latestNamespace.objectNeeded(True).
TimerFires ==
    /\ HCalled
    /\ face.timers # <<>>
    /\ face.latestPulls < MaxPulls
    /\ face' = [timers |-> Tail(face.timers), latestPulls |-> face.latestPulls + 1]
    /\ UNCHANGED <<handlers, stream, hop, offHandler>>

\* The sequence numbers the _latest packets of the producer name.
LatestTargets == {5, 7}
\* The fetches that are answered before objectNeeded returns.
SyncSets == {{}, {5}}
Failures == {INTEREST_TIMEOUT, INTEREST_NETWORK_NACK}

\* The consumer: a handler that fetches the stream.
NextConsumer ==
    \/ \E pipelineSize \in PipelineSizes, kind \in CompletionKinds :
          Construct(1, pipelineSize, kind)
    \/ DoObjectNeeded
    \/ \E period \in FreshnessPeriods : DoSetLatestPacketFreshnessPeriod(period)
    \/ \E state \in Failures : LatestFails(state)
    \/ \E packet \in LatestPackets(LatestTargets), sync \in SyncSets :
          LatestArrives(packet, sync)
    \/ \E n \in SequenceNumbers, state \in Failures : SequenceFails(n, state)
    \/ \E n \in SequenceNumbers, sync \in SyncSets : ObjectCompletes(n, sync)
    \/ \E state \in {NAME_EXISTS, INTEREST_TIMEOUT, OBJECT_READY} :
          OtherStateChange([kind |-> "other", seq |-> 0], state)
    \/ TimerFires
    \/ HReturnToCaller

SpecConsumer == Init /\ [][NextConsumer]_vars

\* ---- the consumer of pipeline size 0 under the event loop
\* The application asks for the stream once, when the Face holds no pull and
\* no timer of the handler; from then on the pulls are the handler's own.
DoFirstObjectNeeded ==
    /\ face.latestPulls = 0
    /\ face.timers = <<>>
    /\ DoObjectNeeded

\* The Face answers a pull of the _latest packet: with a timeout, a network
\* NACK or a packet.
LatestAnswers ==
    \/ \E state \in Failures : LatestFails(state)
    \/ \E packet \in LatestPackets(LatestTargets), sync \in SyncSets :
          LatestArrives(packet, sync)

\* A handler that polls: pipeline size 0 (a negative size is 0 too).
NextPolling ==
    \/ \E pipelineSize \in (0 - 1)..0, kind \in CompletionKinds :
          Construct(1, pipelineSize, kind)
    \/ DoFirstObjectNeeded
    \/ LatestAnswers
    \/ \E n \in SequenceNumbers, state \in Failures : SequenceFails(n, state)
    \/ \E n \in SequenceNumbers, sync \in SyncSets : ObjectCompletes(n, sync)
    \/ TimerFires
    \/ HReturnToCaller

\* The event loop is fair: a call of the handler returns, a timer of
\* callLater that is due fires, and every pull of the _latest packet gets an
\* answer (at the latest the timeout of its Interest).
SpecPolling ==
    /\ Init
    /\ [][NextPolling]_vars
    /\ WF_vars(HReturnToCaller)
    /\ WF_vars(TimerFires)
    /\ WF_vars(LatestAnswers)

\* ------------------------------------------------------------------ claims
\* The operation that has just returned.
Did(op) == lastOp.op = op
\* The step is the call of an operation (getChild by name or by component).
CallsGetChild == Called /\ lastOp'.op \in {"getChild", "getChildComponent"}
CallsSetData == Called /\ lastOp'.op = "setData"

\* The entries of the log that belong to the _setState call e.
EntriesOf(e) == {i \in 1..Len(log) : log[i].ev = e}
StillRegistered(p) == HasCallback(heap[p[1]].onStateChangedCallbacks, p[2])
CalledIn(e, p) == \E i \in EntriesOf(e) : log[i].owner = p[1] /\ log[i].id = p[2]

\* C1: getChild(B) on a node A whose name is a strict prefix of B returns a
\* node named exactly B whose parent chain reaches A; when a node named B is
\* already in the tree, the call returns that node and creates no node.
C1_GetChildSameNode ==
    [][(/\ CallsGetChild
        /\ IsPrefixOf(heap[lastOp'.node].name, lastOp'.name)
        /\ Len(heap[lastOp'.node].name) < Len(lastOp'.name))
       => /\ lastOp'.exc = "none"
          /\ lastOp'.ret \in 1..Len(heap')
          /\ heap'[lastOp'.ret].name = lastOp'.name
          /\ lastOp'.node \in OnPath(heap', lastOp'.ret)
          /\ \A n \in Nodes :
                heap[n].name = lastOp'.name
                    => lastOp'.ret = n /\ Len(heap') = Len(heap)]_vars

\* A getChild for a name two components longer than the name of the node has
\* returned the node of that name and has created nothing.
C1_Witness ==
    /\ Did("getChild")
    /\ lastOp.exc = "none"
    /\ Len(lastOp.name) = Len(heap[lastOp.node].name) + 2
    /\ heap[lastOp.ret].name = lastOp.name
    /\ lastOp.created = 0

\* C2: a getChild that creates nodes makes one _setState call, for the leaf,
\* and none for the intermediate nodes: every callback is called at most
\* once, with NAME_EXISTS; a getChild that creates nothing calls none.
C2_OnlyLeafFires ==
    (Did("getChild") /\ lastOp.exc = "none")
        => /\ Len(events) = (IF lastOp.created > 0 THEN 1 ELSE 0)
           /\ \A i \in 1..Len(log) : log[i].ev = 1 /\ log[i].state = NAME_EXISTS
           /\ \A i, j \in 1..Len(log) :
                 (log[i].owner = log[j].owner /\ log[i].id = log[j].id) => i = j

\* A getChild has created an intermediate node and a leaf, and a callback of
\* the root has been called.
C2_Witness ==
    /\ Did("getChild")
    /\ lastOp.created = 2
    /\ \E i \in 1..Len(log) : heap[log[i].owner].parent = 0

\* C3: the callbacks called for the creation of a leaf get the new leaf as
\* changedNamespace, with NAME_EXISTS.
C3_ChangedIsNewLeaf ==
    ((Did("getChild") \/ Did("getChildComponent")) /\ lastOp.created > 0)
        => \A i \in 1..Len(log) :
              log[i].changed = lastOp.ret /\ log[i].state = NAME_EXISTS

\* C4: setData on a node that has a Data packet changes nothing and calls no
\* callback; a setData that attaches a packet makes the two state changes of
\* that packet and leaves it attached with its content, whatever the
\* callbacks do, a setData of their own on the same node included.
C4_SecondSetDataNoOp ==
    [][CallsSetData
       => LET n == lastOp'.node
              data == [name |-> lastOp'.name, content |-> lastOp'.content]
          IN  IF heap[n].data # {}
              THEN /\ heap' = heap
                   /\ log' = <<>>
                   /\ events' = <<>>
                   /\ lastOp'.exc = "none"
              ELSE lastOp'.exc = "none"
                     => /\ heap'[n].data = {data}
                        /\ heap'[n].content = {data.content}
                        /\ [i \in 1..Len(events') |-> <<events'[i].node, events'[i].state>>]
                             = <<<<n, DATA_RECEIVED>>, <<n, CONTENT_READY>>>>]_vars

\* A callback called with DATA_RECEIVED has called setData on the changed node.
C4_Witness ==
    /\ Did("setData")
    /\ \E i \in 1..Len(log) : log[i].kind.k = "setData" /\ log[i].state = DATA_RECEIVED

\* C5 as stated: a setData with a packet of another name and a getChild with
\* a name the node's name is no prefix of each raise an error and change
\* nothing.
C5_UsageErrorRaises ==
    [][/\ (CallsSetData /\ lastOp'.name # heap[lastOp'.node].name)
            => (lastOp'.exc = "RuntimeError" /\ heap' = heap /\ log' = <<>>)
       /\ (Called /\ lastOp'.op = "getChild"
             /\ ~IsPrefixOf(heap[lastOp'.node].name, lastOp'.name))
            => (lastOp'.exc = "RuntimeError" /\ heap' = heap /\ log' = <<>>)]_vars

\* C5 amended: a setData with a packet of another name raises an error
\* unless the node has a Data packet, and then it does nothing; a getChild
\* with a name the node's name is no prefix of raises an error; either way
\* no node is created or changed and no callback is called.
C5_UsageErrorLeavesTree ==
    [][/\ (CallsSetData /\ lastOp'.name # heap[lastOp'.node].name)
            => /\ lastOp'.exc = (IF heap[lastOp'.node].data = {}
                                 THEN "RuntimeError" ELSE "none")
               /\ heap' = heap /\ log' = <<>> /\ events' = <<>>
       /\ (Called /\ lastOp'.op = "getChild"
             /\ ~IsPrefixOf(heap[lastOp'.node].name, lastOp'.name))
            => /\ lastOp'.exc = "RuntimeError"
               /\ heap' = heap /\ log' = <<>> /\ events' = <<>>]_vars

\* A setData with a packet of another name has raised, on a node that has no
\* packet and has a callback.
C5_Witness ==
    /\ Did("setData")
    /\ lastOp.exc = "RuntimeError"
    /\ lastOp.name # heap[lastOp.node].name
    /\ heap[lastOp.node].onStateChangedCallbacks # <<>>

\* C6: a _setState of a node N calls only callbacks that were registered at N
\* or at an ancestor of N when the state was set, and it calls every one of
\* them that is registered throughout the call.
C6_PathCallbacksOnly ==
    \A e \in 1..Len(events) :
        /\ \A i \in EntriesOf(e) :
              /\ log[i].owner \in OnPath(heap, events[e].node)
              /\ <<log[i].owner, log[i].id>> \in events[e].registered
              /\ log[i].changed = events[e].node
        /\ \A p \in events[e].registered : StillRegistered(p) => CalledIn(e, p)

\* A callback of an ancestor of the changed node has been called, and a node
\* off the path of the changed node to the root has a callback.
C6_Witness ==
    \E i \in 1..Len(log) :
        /\ log[i].owner # log[i].changed
        /\ \E n \in Nodes \ OnPath(heap, log[i].changed) :
              heap[n].onStateChangedCallbacks # <<>>

\* C7: of two callback calls of one _setState, the earlier one is for a node
\* at least as deep as the node of the later one (the changed node first,
\* the root last), and of two for the same node the earlier one is for the
\* callback registered first (the one with the lower id).
C7_DispatchOrder ==
    \A i, j \in 1..Len(log) :
        (i < j /\ log[i].ev = log[j].ev)
            => /\ Len(heap[log[i].owner].name) >= Len(heap[log[j].owner].name)
               /\ log[i].owner = log[j].owner => log[i].id < log[j].id

\* One _setState has called a callback of the changed node and then a
\* callback of its parent.
C7_Witness ==
    \E i, j \in 1..Len(log) :
        /\ i < j
        /\ log[i].ev = log[j].ev
        /\ log[i].owner = log[i].changed
        /\ log[j].owner = heap[log[i].owner].parent

\* The callback a "remove" callback removes from its node.
Removes(entry) == <<entry.owner, entry.id + entry.kind.t>>

C9_ObserverExceptionCaught ==
    \A i \in 1..Len(log) :
        log[i].kind.k = "raise"
            => /\ lastOp.exc = "none"
               /\ \A p \in events[log[i].ev].registered :
                     StillRegistered(p) => CalledIn(log[i].ev, p)

\* A callback has raised and a callback has been called after it for the same
\* _setState.
C9_Witness ==
    \E i, j \in 1..Len(log) :
        /\ i < j
        /\ log[i].ev = log[j].ev
        /\ log[i].kind.k = "raise"

\* The Interest of the last _onInterest, the node its name selects, and the
\* nodes under it that hold a packet the Interest matches.
LastInterest == [name |-> lastOp.name, accepts |-> lastOp.accepts]
SearchRoots == {n \in Nodes : heap[n].name = StripDigest(lastOp.name)}
Matching(root) ==
    {n \in Nodes :
        /\ IsPrefixOf(heap[root].name, heap[n].name)
        /\ \E d \in heap[n].data : MatchesData(LastInterest, d)}

\* C10: the longest-prefix search under a node finds nothing exactly when no
\* node under it holds a packet the Interest matches; otherwise it finds the
\* name of such a node, and no such node has a longer name.
C10_LongestMatch ==
    (Did("onInterest") /\ IsPrefixOf(heap[lastOp.node].name, StripDigest(lastOp.name)))
        => /\ SearchRoots # {}
           /\ \A root \in SearchRoots :
                 /\ lastOp.best = {} <=> Matching(root) = {}
                 /\ \A b \in lastOp.best :
                       \E n \in Matching(root) :
                          /\ heap[n].name = b
                          /\ \A k \in Matching(root) :
                                Len(heap[k].name) <= Len(b)

\* The search has found a name while a node under another child of the
\* search root holds a matching packet with a shorter name, and the search
\* root holds one too.
C10_Witness ==
    /\ Did("onInterest")
    /\ \E root \in SearchRoots, b \in lastOp.best : \E k \in Matching(root) :
          /\ root \in Matching(root)
          /\ k # root
          /\ Len(heap[k].name) < Len(b)
          /\ ~IsPrefixOf(heap[k].name, b)

\* The first position at which two names of the same length differ.
FirstDifference(a, b) == CHOOSE i \in 1..Len(a) : a[i] # b[i] /\ \A j \in 1..(i - 1) : a[j] = b[j]

\* The matching nodes whose name is as long as the name the search found and
\* is another name.
EqualMatches(root, b) ==
    {k \in Matching(root) : Len(heap[k].name) = Len(b) /\ heap[k].name # b}

\* C11: when the search finds a name and a node under a sibling has a
\* matching packet with a name of the same length, the name found is under
\* the sibling with the smaller component (in the order of the sorted keys).
C11_SmallerSiblingWins ==
    (Did("onInterest") /\ IsPrefixOf(heap[lastOp.node].name, StripDigest(lastOp.name)))
        => \A root \in SearchRoots : \A b \in lastOp.best :
              \A k \in EqualMatches(root, b) :
                 b[FirstDifference(b, heap[k].name)]
                     < heap[k].name[FirstDifference(b, heap[k].name)]

\* The search has found a name under one child of the search root while a
\* node under another child holds a matching packet with a name as long.
C11_Witness ==
    /\ Did("onInterest")
    /\ \E root \in SearchRoots : \E b \in lastOp.best : EqualMatches(root, b) # {}

\* C12: an _onInterest that finds no matching Data packet hands no packet to
\* the Face, creates no node, changes the state of no node and calls no
\* callback.
C12_NoMatchNoAction ==
    [][(Called /\ lastOp'.op = "onInterest" /\ lastOp'.best = {})
          => /\ lastOp'.sent = <<>>
             /\ heap' = heap
             /\ events' = <<>>
             /\ log' = <<>>]_vars

\* C13: the ids getNextCallbackId returns, in the order in which the calls
\* held the lock, are strictly increasing, whatever threads call it and
\* however their steps interleave: no two calls return the same id.
C13_IdsUniqueIncreasing ==
    \A i, j \in 1..Len(issued) : i < j => issued[i].id < issued[j].id

\* Two threads have got ids while the other thread was waiting for the lock.
C13_Witness ==
    /\ \E i, j \in 1..Len(issued) : issued[i].thread # issued[j].thread
    /\ \E t \in Threads : threads[t].pc = "out" /\ lock # 0

\* C18: no operation of the tree sets the state of a node that exists to a
\* value lower than the one it has.
C18_StateMovesForward ==
    [][\A n \in Nodes : heap'[n].state >= heap[n].state]_vars

\* C19: the Data packet of a node that has one is the same after every
\* operation, and the name of the packet of a node is the name of the node.
C19_DataSetOnce ==
    [][/\ \A n \in Nodes : heap[n].data # {} => heap'[n].data = heap[n].data
       /\ \A n \in 1..Len(heap') : \A d \in heap'[n].data : d.name = heap'[n].name]_vars

\* A setData with the packet of another node has returned on a node that
\* has a packet.
C19_Witness ==
    /\ Did("setData")
    /\ lastOp.exc = "none"
    /\ heap[lastOp.node].data # {}
    /\ lastOp.name # heap[lastOp.node].name

\* The step is a call of the handler.
HCalls(op) == HCalled /\ hop'.op = op
HDid(op) == hop.op = op

\* C14: a setPipelineSize whose size (0 for a negative one) is 0 while the
\* pipeline size is positive, or positive while it is 0, raises an error and
\* leaves the pipeline size; any other one stores the size; so no step takes
\* the pipeline size of a handler from 0 to positive or back.
C14_PipelineModeFixed ==
    [][/\ HCalls("setPipelineSize")
            => LET old == handlers[1].pipelineSize
                   size == IF hop'.arg < 0 THEN 0 ELSE hop'.arg
               IN  IF (size = 0) # (old = 0)
                   THEN hop'.exc = "RuntimeError" /\ handlers'[1].pipelineSize = old
                   ELSE hop'.exc = "none" /\ handlers'[1].pipelineSize = size
       /\ (Len(handlers) = 1 /\ Len(handlers') = 1)
            => ((handlers'[1].pipelineSize = 0) <=> (handlers[1].pipelineSize = 0))]_vars

\* A setPipelineSize with a negative size has raised.
C14_Witness ==
    /\ HDid("setPipelineSize")
    /\ hop.arg < 0
    /\ hop.exc = "RuntimeError"
    /\ handlers[1].pipelineSize > 0

\* C20 as stated: no setObject and no addObject decreases
\* producedSequenceNumber, and addObject adds one to it.
C20_ProducedNeverDecreases ==
    [][(Len(handlers) = 1 /\ Len(handlers') = 1)
          => /\ handlers'[1].producedSequenceNumber >= handlers[1].producedSequenceNumber
             /\ (HCalls("addObject") /\ hop'.exc = "none")
                   => handlers'[1].producedSequenceNumber
                        = handlers[1].producedSequenceNumber + 1]_vars

\* C20 amended: producedSequenceNumber is -1 in a new handler; an addObject
\* adds one to it; a setObject sets it to the sequence number it is given,
\* lower or not; nothing else changes it.
C20_ProducedSetByPublish ==
    [][/\ (handlers = <<>> /\ handlers' # <<>>)
            => handlers'[1].producedSequenceNumber = 0 - 1
       /\ (Len(handlers) = 1 /\ Len(handlers') = 1)
            => handlers'[1].producedSequenceNumber =
                  (IF HCalls("addObject") /\ hop'.exc = "none"
                   THEN handlers[1].producedSequenceNumber + 1
                   ELSE IF HCalls("setObject") /\ hop'.exc = "none"
                   THEN hop'.arg
                   ELSE handlers[1].producedSequenceNumber)]_vars

\* A setObject has published at a sequence number lower than the last one,
\* after an addObject or a setObject.
C20_Witness ==
    /\ HDid("setObject")
    /\ hop.exc = "none"
    /\ hop.arg < hop.before.producedSequenceNumber

\* The sequence numbers whose fetch is in flight, has failed, is done.
FetchesInFlight == {n \in SequenceNumbers : InFlight(n)}
FetchesFailed ==
    {n \in SequenceNumbers : stream[n].meta \in {INTEREST_TIMEOUT, INTEREST_NETWORK_NACK}}
FetchesDone == {n \in SequenceNumbers : stream[n].obj}
FetchesIssued == {n \in SequenceNumbers : stream[n].meta >= INTEREST_EXPRESSED}

\* The handler has pipeline size 3 and has requested 5, 6 and 7 for a _latest
\* packet that names 5; the objects of 6 and 7, and no other, have arrived;
\* the fetch of 5 is in flight; no fetch has failed and no _latest packet has
\* reset the pipeline while fetches were in flight.
After6And7Before5 ==
    /\ Len(handlers) = 1
    /\ hop = HIdle
    /\ handlers[1].pipelineSize = 3
    /\ FetchesDone = {6, 7}
    /\ 5 \in FetchesInFlight
    /\ FetchesFailed = {}
    /\ \A n \in 0..4 : ~stream[n].exists
    /\ handlers[1].nReportedSequenceNumbers = 2
    /\ handlers[1].nRequestedSequenceNumbers = Cardinality(FetchesIssued)

\* C15 as stated: then maxReported is 7 and the outstanding count is 1, for
\* sequence number 5.
C15_OnlyFiveOutstanding ==
    After6And7Before5
        => /\ handlers[1].maxReportedSequenceNumber = 7
           /\ handlers[1].nRequestedSequenceNumbers
                 - handlers[1].nReportedSequenceNumbers = 1
           /\ FetchesInFlight = {5}

\* C15 amended: then maxReported is 7, 5 is in flight and has been fetched
\* once, and each of the two completions has made the handler fetch one more
\* sequence number: 5, 8 and 9 are in flight, the outstanding count is 3.
C15_WindowRefilled ==
    After6And7Before5
        => /\ handlers[1].maxReportedSequenceNumber = 7
           /\ handlers[1].nRequestedSequenceNumbers
                 - handlers[1].nReportedSequenceNumbers = 3
           /\ FetchesInFlight = {5, 8, 9}
           /\ handlers[1].maxRequestedSequenceNumber = 9
           /\ \A n \in SequenceNumbers : stream[n].attached <= 1

\* The objects of 6 and 7 have arrived before the object of 5.
C15_Witness ==
    /\ After6And7Before5
    /\ handlers[1].onSequencedGeneralizedObject = "log"

\* C16: when a pull of the _latest packet has timed out or has got a NACK,
\* the handler schedules one callLater with the freshness period it is
\* configured with, pulls nothing at once, fetches nothing and changes no
\* field and no node.
C16_LatestFailureDefersPull ==
    [][\A state \in Failures :
          (HCalls("latestFails") /\ hop'.arg = state)
             => /\ hop'.callLater = <<handlers[1].latestPacketFreshnessPeriod>>
                /\ face'.timers = Append(face.timers, handlers[1].latestPacketFreshnessPeriod)
                /\ hop'.latestNeeded = 0
                /\ face'.latestPulls = face.latestPulls - 1
                /\ hop'.fetched = <<>>
                /\ hop'.exc = "none"
                /\ handlers' = handlers
                /\ stream' = stream]_vars

\* A pull has got a NACK while fetches were in flight, and the handler has
\* scheduled the next one for a freshness period that is not the default.
C16_Witness ==
    /\ HDid("latestFails")
    /\ hop.arg = INTEREST_NETWORK_NACK
    /\ hop.callLater # <<DefaultFreshnessPeriod>>
    /\ handlers[1].pipelineSize > 0
    /\ FetchesInFlight # {}

\* The step is the arrival, at a handler of pipeline size 0, of a _latest
\* packet that names the sequence number n, which has no object.
ArrivalNaming(n) ==
    /\ HCalls("latestArrives")
    /\ handlers[1].pipelineSize = 0
    /\ hop'.arg.delegations = <<n>>
    /\ ~stream[n].obj

\* The step is the completion of a fetch at a handler of pipeline size 0.
CompletionAtSizeZero == HCalls("objectCompletes") /\ handlers[1].pipelineSize = 0

\* What the completion callback of the handler is called with for n.
ReportOf(n) ==
    IF handlers[1].onSequencedGeneralizedObject = "none" THEN <<>> ELSE <<n>>

\* C17 as stated: the arrival makes one fetch of n, none when a fetch of n
\* is in flight; n is reported once, when its fetch completes; the next
\* pull of _latest is scheduled after the completion of the fetch.
C17_ScheduleAfterCompletion ==
    [][/\ \A n \in SequenceNumbers :
             ArrivalNaming(n)
                => /\ hop'.fetched = (IF InFlight(n) THEN <<>> ELSE <<n>>)
                   /\ ~stream'[n].obj => hop'.callLater = <<>>
       /\ CompletionAtSizeZero
             => /\ hop'.reported = ReportOf(hop'.arg)
                /\ Len(hop'.callLater) = 1]_vars

\* C17 amended: the arrival makes one fetch of n, none when a fetch of n has
\* been made before (in flight or failed), and in the same call schedules
\* the next pull of _latest at half the freshness period of the packet, if
\* it has one; the completion of the fetch reports n once and schedules
\* nothing.
C17_ScheduleOnArrival ==
    [][/\ \A n \in SequenceNumbers :
             ArrivalNaming(n)
                => /\ hop'.fetched =
                         (IF stream[n].meta >= INTEREST_EXPRESSED THEN <<>> ELSE <<n>>)
                   /\ hop'.callLater =
                         (IF hop'.arg.freshnessPeriod = NoFreshnessPeriod THEN <<>>
                          ELSE <<hop'.arg.freshnessPeriod \div 2>>)
                   /\ hop'.latestNeeded = 0
                   /\ hop'.reported = (IF stream'[n].obj THEN ReportOf(n) ELSE <<>>)
                   /\ stream'[n].attached <= 1
       /\ CompletionAtSizeZero
             => /\ hop'.reported = ReportOf(hop'.arg)
                /\ hop'.callLater = <<>>
                /\ hop'.fetched = <<>>
                /\ handlers'[1].nReportedSequenceNumbers
                      = handlers[1].nReportedSequenceNumbers + 1]_vars

\* A _latest packet has made a handler of pipeline size 0 fetch a sequence
\* number; the fetch is in flight and the next pull is scheduled.
C17_Witness ==
    /\ HDid("latestArrives")
    /\ handlers[1].pipelineSize = 0
    /\ Len(hop.fetched) = 1
    /\ hop.fetched = hop.arg.delegations
    /\ FetchesInFlight # {}
    /\ Len(hop.callLater) = 1

\* The step is the failure (state is the new state of the _meta node) of the
\* fetch of the sequence number n.
FailureOf(n, state) ==
    /\ HCalls("sequenceFails")
    /\ hop'.arg = n
    /\ stream'[n].meta = state

\* C21: when the fetch of a sequence number times out (or gets a NACK), the
\* handler pulls the _latest packet at once exactly when its pipeline size is
\* positive and the sequence number is maxRequestedSequenceNumber; either
\* way it schedules no timer, fetches nothing and changes no counter.
C21_HighestTimeoutRepulls ==
    [][\A n \in SequenceNumbers, state \in Failures :
          FailureOf(n, state)
             => /\ hop'.latestNeeded =
                      (IF /\ handlers[1].pipelineSize > 0
                          /\ n = handlers[1].maxRequestedSequenceNumber
                       THEN 1 ELSE 0)
                /\ face'.latestPulls = face.latestPulls + hop'.latestNeeded
                /\ hop'.callLater = <<>>
                /\ face'.timers = face.timers
                /\ hop'.fetched = <<>>
                /\ hop'.reported = <<>>
                /\ hop'.exc = "none"
                /\ handlers' = handlers]_vars

\* The fetch of the highest requested sequence number has timed out while a
\* fetch of a lower one was in flight, and the handler has pulled _latest.
C21_Witness ==
    /\ HDid("sequenceFails")
    /\ stream[hop.arg].meta = INTEREST_TIMEOUT
    /\ hop.latestNeeded = 1
    /\ \E n \in FetchesInFlight : n < hop.arg

\* The step is the arrival of a _latest packet that names no target, or a
\* target that is no sequence number child of the node of the handler.
ArrivalWithoutTarget ==
    /\ HCalls("latestArrives")
    /\ \/ hop'.arg.delegations = <<>>
       \/ hop'.arg.delegations[1] \notin SequenceNumbers

\* C22: a _latest packet whose DelegationSet is empty, or whose target is no
\* sequence number child of the node of the handler, is dropped: the call
\* raises nothing, fetches nothing, looks up and creates no node, changes no
\* counter, and schedules and pulls nothing.
C22_BadLatestIgnored ==
    [][ArrivalWithoutTarget
          => /\ hop'.exc = "none"
             /\ hop'.fetched = <<>>
             /\ hop'.reported = <<>>
             /\ hop'.targets = <<>>
             /\ stream' = stream
             /\ handlers' = handlers
             /\ hop'.callLater = <<>>
             /\ hop'.latestNeeded = 0]_vars

\* A _latest packet that names a node that is no sequence number child has
\* arrived at a handler that has fetches in flight.
C22_Witness ==
    /\ HDid("latestArrives")
    /\ hop.arg.delegations = <<ForeignName>>
    /\ FetchesInFlight # {}

\* The step is the arrival, at a handler of positive pipeline size, of a
\* _latest packet that names the sequence number t, which has no object.
ResetArrival(t) ==
    /\ HCalls("latestArrives")
    /\ handlers[1].pipelineSize > 0
    /\ hop'.arg.delegations = <<t>>
    /\ ~stream[t].obj

\* The sequence numbers the call has fetched, and those of them whose object
\* has arrived before the call has returned.
FetchedInCall == {hop'.fetched[i] : i \in 1..Len(hop'.fetched)}
AnsweredInCall == {n \in FetchedInCall : stream'[n].obj}

\* The fetches of the call are in ascending order, each for a sequence number
\* of the candidates, and no candidate below the last of them is left out.
FetchesLowestOf(candidates) ==
    /\ \A i, j \in 1..Len(hop'.fetched) : i < j => hop'.fetched[i] < hop'.fetched[j]
    /\ FetchedInCall \subseteq candidates
    /\ \A c \in candidates, n \in FetchedInCall : c < n => c \in FetchedInCall

\* The counters after the reset and n fetches that are not answered.
ResetThenRequested(t, n) ==
    /\ handlers'[1].nReportedSequenceNumbers = handlers[1].nReportedSequenceNumbers
    /\ handlers'[1].maxReportedSequenceNumber = t - 1
    /\ handlers'[1].nRequestedSequenceNumbers = handlers[1].nReportedSequenceNumbers + n
    /\ Len(hop'.fetched) = n

\* C23 as stated: such an arrival (no fetch of it being answered before it
\* returns) sets maxReported to t - 1 and requested to reported and fetches
\* the pipelineSize lowest sequence numbers from t on that have no object
\* and no fetch in flight.
C23_FetchesNotInFlight ==
    [][\A t \in SequenceNumbers :
          (ResetArrival(t) /\ AnsweredInCall = {})
             => /\ ResetThenRequested(t, handlers[1].pipelineSize)
                /\ FetchesLowestOf({n \in t..MaxSeq : ~stream[n].obj /\ ~InFlight(n)})]_vars

\* C23 amended: such an arrival sets maxReported to t - 1 and requested to
\* reported and fetches, in ascending order, the lowest sequence numbers
\* from t on that have no Data packet and whose request state is below
\* INTEREST_EXPRESSED (a fetch in flight, timed out or refused is skipped);
\* pipelineSize of these fetches at least are in flight when it returns, and
\* when none is answered before it returns it has made pipelineSize fetches,
\* reported is as before and maxRequested is the highest number requested.
C23_ResetAndRefill ==
    [][\A t \in SequenceNumbers :
          ResetArrival(t)
             => /\ FetchesLowestOf({n \in t..MaxSeq : ~AlreadyRequested(stream[n])})
                /\ Cardinality(FetchedInCall \ AnsweredInCall) >= handlers[1].pipelineSize
                /\ FetchedInCall \ AnsweredInCall \subseteq {n \in SequenceNumbers : InFlight(n)}'
                /\ hop'.exc = "none"
                /\ hop'.latestNeeded = 0
                /\ hop'.callLater = <<>>
                /\ AnsweredInCall = {}
                      => /\ ResetThenRequested(t, handlers[1].pipelineSize)
                         /\ \A n \in FetchedInCall :
                               n <= handlers'[1].maxRequestedSequenceNumber
                         /\ handlers'[1].maxRequestedSequenceNumber
                               \in FetchedInCall \cup {handlers[1].maxRequestedSequenceNumber}]_vars

\* A _latest packet has arrived after the fetch of the highest requested
\* sequence number has failed, while a fetch was in flight; the handler has
\* fetched past them.
C23_Witness ==
    /\ HDid("latestArrives")
    /\ handlers[1].pipelineSize > 1
    /\ hop.arg.delegations # <<>>
    /\ hop.fetched # <<>>
    /\ \E n \in FetchesFailed : hop.arg.delegations[1] <= n /\ n < hop.fetched[1]
    /\ \E n \in FetchesInFlight : hop.arg.delegations[1] <= n /\ n < hop.fetched[1]

\* C24: at a handler of positive pipeline size, the fetches that have been
\* issued and have neither completed nor failed are never more than the
\* pipeline size.
C24_AtMostPipelineSizeInFlight ==
    (Len(handlers) = 1 /\ handlers[1].pipelineSize > 0)
        => Cardinality(FetchesInFlight) <= handlers[1].pipelineSize

\* The sequence numbers whose object has arrived in the call of the step,
\* and the ones the completion callback has been called with.
CompletedInCall == {n \in SequenceNumbers : stream'[n].obj /\ ~stream[n].obj}
ReportedInCall == {hop'.reported[i] : i \in 1..Len(hop'.reported)}
Highest(numbers) == CHOOSE n \in numbers : \A k \in numbers : k <= n

\* C25: the completion callback (when the handler has one) is called once
\* for every sequence number whose object arrives and for no other; the
\* call raises nothing, whatever the callback does; nReported grows by one
\* for each of them, maxReported is the highest of them if that is higher,
\* and a handler of positive pipeline size has run the request routine:
\* requested - reported is the pipeline size at least when it returns.
C25_CallbackErrorDoesNotStall ==
    [][(HCalled /\ hop'.op # "idle")
          => /\ \A i, j \in 1..Len(hop'.reported) :
                   hop'.reported[i] = hop'.reported[j] => i = j
             /\ ReportedInCall =
                   (IF handlers[1].onSequencedGeneralizedObject = "none"
                    THEN {} ELSE CompletedInCall)
             /\ handlers'[1].nReportedSequenceNumbers
                   = handlers[1].nReportedSequenceNumbers + Cardinality(CompletedInCall)
             /\ HCalls("objectCompletes")
                   => /\ hop'.exc = "none"
                      /\ hop'.arg \in CompletedInCall
                      /\ handlers'[1].maxReportedSequenceNumber =
                            Highest(CompletedInCall
                                      \cup {handlers[1].maxReportedSequenceNumber})
                      /\ handlers[1].pipelineSize > 0
                            => handlers'[1].nRequestedSequenceNumbers
                                  - handlers'[1].nReportedSequenceNumbers
                                      >= handlers[1].pipelineSize]_vars

\* The completion callback has raised for a sequence number that is a new
\* highest one, and the handler has fetched the next sequence number.
C25_Witness ==
    /\ HDid("objectCompletes")
    /\ handlers[1].onSequencedGeneralizedObject = "raise"
    /\ hop.reported = <<hop.arg>>
    /\ hop.arg > hop.before.maxReportedSequenceNumber
    /\ handlers[1].maxReportedSequenceNumber = hop.arg
    /\ hop.fetched # <<>>

\* The step is an arrival that resets the pipeline (lines 317-319).
ResetsPipeline == \E t \in SequenceNumbers : ResetArrival(t)

\* C26: every fetch of a call is for a sequence number that had no Data
\* packet and a request state below INTEREST_EXPRESSED, no call fetches a
\* number twice, and the request state of a number that has been fetched
\* stays at INTEREST_EXPRESSED or above: no number is fetched twice in a
\* run. Only the fetches count: requested grows by one for each fetch of a
\* handler of positive pipeline size (from reported, after a reset) and
\* maxRequested is the highest number fetched if that is higher.
C26_FetchedAtMostOnce ==
    [][/\ \A n \in SequenceNumbers :
             stream[n].meta >= INTEREST_EXPRESSED => stream'[n].meta >= INTEREST_EXPRESSED
       /\ (HCalled /\ hop'.op # "idle")
             => /\ \A i, j \in 1..Len(hop'.fetched) :
                      hop'.fetched[i] = hop'.fetched[j] => i = j
                /\ \A n \in FetchedInCall :
                      /\ ~stream[n].data
                      /\ stream[n].meta < INTEREST_EXPRESSED
                      /\ stream'[n].meta >= INTEREST_EXPRESSED
                      /\ stream'[n].attached = 1
                /\ IF handlers[1].pipelineSize > 0
                   THEN /\ handlers'[1].nRequestedSequenceNumbers =
                              (IF ResetsPipeline
                               THEN handlers[1].nReportedSequenceNumbers
                               ELSE handlers[1].nRequestedSequenceNumbers)
                                   + Len(hop'.fetched)
                        /\ handlers'[1].maxRequestedSequenceNumber =
                              Highest(FetchedInCall
                                        \cup {handlers[1].maxRequestedSequenceNumber})
                   ELSE /\ handlers'[1].nRequestedSequenceNumbers
                              = handlers[1].nRequestedSequenceNumbers
                        /\ handlers'[1].maxRequestedSequenceNumber
                              = handlers[1].maxRequestedSequenceNumber]_vars

\* A _latest packet has named, at a handler of pipeline size 0, a sequence
\* number whose fetch is in flight, and the handler has fetched nothing.
C26_Witness ==
    /\ HDid("latestArrives")
    /\ handlers[1].pipelineSize = 0
    /\ hop.arg.delegations # <<>>
    /\ hop.targets = hop.arg.delegations
    /\ hop.targets[1] \in FetchesInFlight
    /\ hop.fetched = <<>>

\* The keys of the children of a node, from its list of sorted keys.
SortedKeys(n) == {heap[n].sortedChildrenKeys[i] : i \in 1..Len(heap[n].sortedChildrenKeys)}

\* C27: the list of sorted keys of every node holds the keys of its children
\* and nothing else, each once, in ascending order; the list a
\* getChildComponents has returned holds what it held when the call
\* returned, whatever children are created after that.
C27_SortedKeysMatchChildren ==
    /\ \A n \in Nodes :
          /\ SortedKeys(n) = DOMAIN heap[n].children
          /\ \A i, j \in 1..Len(heap[n].sortedChildrenKeys) :
                i < j => heap[n].sortedChildrenKeys[i] < heap[n].sortedChildrenKeys[j]
    /\ childComponents.node # 0
          => /\ ItemsOf(heap, childComponents.list) = childComponents.got
             /\ \A i \in 1..Len(childComponents.got) :
                   childComponents.got[i] \in SortedKeys(childComponents.node)

\* A node has got a child with a lower component after a child with a higher
\* one, and after a getChildComponents that has returned the higher one.
C27_Witness ==
    /\ childComponents.node # 0
    /\ childComponents.got = <<NComps>>
    /\ heap[childComponents.node].sortedChildrenKeys = <<1, NComps>>
    /\ Did("getChildComponent")

\* C28: the producer answers a pull of the _latest packet exactly when
\* producedSequenceNumber is 0 or more; the packet it makes names one
\* target, the sequence number producedSequenceNumber has at the pull, whose
\* object is published, and has the freshness period of the handler; the
\* pull changes no field of the handler and fetches nothing.
C28_LatestNamesCurrent ==
    [][HCalls("latestNeeded")
          => /\ hop'.served =
                   (IF handlers[1].producedSequenceNumber >= 0
                    THEN <<[delegations |-> <<handlers[1].producedSequenceNumber>>,
                            freshnessPeriod |-> handlers[1].latestPacketFreshnessPeriod]>>
                    ELSE <<>>)
             /\ \A i \in 1..Len(hop'.served) :
                   /\ Len(hop'.served[i].delegations) = 1
                   /\ hop'.served[i].delegations[1] \in SequenceNumbers
                   /\ stream[hop'.served[i].delegations[1]].obj
             /\ hop'.exc = "none"
             /\ hop'.fetched = <<>>
             /\ hop'.latestNeeded = 0
             /\ handlers' = handlers
             /\ stream' = stream]_vars

\* The producer has answered a pull with the sequence number of a setObject
\* that is lower than a sequence number published before it.
C28_Witness ==
    /\ HDid("latestNeeded")
    /\ Len(hop.served) = 1
    /\ hop.served[1].delegations = <<handlers[1].producedSequenceNumber>>
    /\ \E n \in SequenceNumbers :
          n > handlers[1].producedSequenceNumber /\ stream[n].obj

\* The step is a setData that attaches its packet.
AttachesData ==
    /\ CallsSetData
    /\ lastOp'.exc = "none"
    /\ heap[lastOp'.node].data = {}

\* The nodes between a node and the node of the _transformContent it uses
\* have none.
NearestTransform(n, transformContent) ==
    /\ transformContent.at \in OnPath(heap, n)
    /\ heap[transformContent.at].transformContent = transformContent
    /\ \A a \in OnPath(heap, n) :
          Len(heap[a].name) > Len(heap[transformContent.at].name)
              => heap[a].transformContent = NoTransform

\* C29: a setData that attaches a packet to a node without _transformContent
\* on it or above it makes two state changes of that node, DATA_RECEIVED and
\* then CONTENT_READY, every callback of the path being called with the
\* first before any is called with the second, and leaves the node
\* CONTENT_READY with the content of the packet; with a _transformContent on
\* the node or on its nearest ancestor that has one, that function is called
\* once instead, and the node is DATA_RECEIVED without content for as long
\* as the function has not called back.
C29_ContentReadyAfterTransform ==
    [][/\ AttachesData
            => LET n == lastOp'.node
                   data == [name |-> lastOp'.name, content |-> lastOp'.content]
                   transformContent == GetTransformContent(heap, n)
               IN  IF transformContent = NoTransform
                   THEN /\ [i \in 1..Len(events') |-> <<events'[i].node, events'[i].state>>]
                             = <<<<n, DATA_RECEIVED>>, <<n, CONTENT_READY>>>>
                        /\ \A i, j \in 1..Len(log') :
                              (log'[i].state = DATA_RECEIVED /\ log'[j].state = CONTENT_READY)
                                  => i < j
                        /\ \A p \in RegisteredAt(heap, OnPath(heap, n)) :
                              \A e \in 1..2 :
                                 \E i \in 1..Len(log') :
                                    /\ log'[i].ev = e
                                    /\ <<log'[i].owner, log'[i].id>> = p
                        /\ heap'[n].state = CONTENT_READY
                        /\ heap'[n].content = {data.content}
                        /\ lastOp'.transforms = <<>>
                   ELSE /\ lastOp'.transforms =
                              <<[node |-> n, data |-> data, by |-> transformContent]>>
                        /\ NearestTransform(n, transformContent)
                        /\ heap'[n].data = {data}
       /\ \A i \in 1..Len(pendingTransforms') :
             /\ heap'[pendingTransforms'[i].node].state = DATA_RECEIVED
             /\ heap'[pendingTransforms'[i].node].content = {}]_vars

\* C30: every callback call of a _setState gets the state and the node of
\* that _setState, whatever the state of the node is at the call; a
\* _setState made by a callback calls every callback of the path of its node
\* before the callbacks of the outer _setState go on: once a call of an
\* earlier _setState is made, no call of a _setState made in between follows.
C30_ObserversGetEventState ==
    /\ \A i \in 1..Len(log) :
          /\ log[i].ev \in 1..Len(events)
          /\ log[i].state = events[log[i].ev].state
          /\ log[i].changed = events[log[i].ev].node
    /\ \A e \in 1..Len(events) :
          \A p \in events[e].registered : StillRegistered(p) => CalledIn(e, p)
    /\ \A i, j, k \in 1..Len(log) :
          (i < j /\ j < k /\ log[j].ev < log[i].ev) => log[k].ev # log[i].ev

\* A callback called for the creation of a child has attached a packet to
\* the changed node; its state changes have been dispatched, and a callback
\* called after that for the creation has got NAME_EXISTS while the node is
\* CONTENT_READY.
C30_Witness ==
    \E i, j, k \in 1..Len(log) :
        /\ i < j /\ j < k
        /\ log[i].ev = 1 /\ log[k].ev = 1
        /\ log[i].kind.k = "attach"
        /\ log[j].ev = 3
        /\ log[j].owner # log[j].changed
        /\ log[j].changed = log[k].changed
        /\ log[k].state = NAME_EXISTS
        /\ heap[log[k].changed].state = CONTENT_READY

\* The difference of the two counters of the handler.
CounterDifference ==
    handlers[1].nRequestedSequenceNumbers - handlers[1].nReportedSequenceNumbers

\* C31: at a handler of positive pipeline size, requested - reported is
\* never negative and is the number of the fetches that the handler has
\* issued and that have not completed: the fetches in flight, with or
\* without the ones that have timed out or have got a NACK.
C31_DifferenceCountsFetches ==
    (Len(handlers) = 1 /\ handlers[1].pipelineSize > 0)
        => /\ CounterDifference >= 0
           /\ \/ CounterDifference = Cardinality(FetchesInFlight)
              \/ CounterDifference = Cardinality(FetchesInFlight \cup FetchesFailed)

\* A pull of the _latest packet by a handler of pipeline size 0 has just got
\* its outcome: a timeout, a network NACK, or a versioned _latest packet of
\* any content whose freshness period is not negative.
PullAnswered ==
    /\ Len(handlers) = 1
    /\ handlers[1].pipelineSize = 0
    /\ \/ HDid("latestFails")
       \/ HDid("latestArrives") /\ hop.arg.freshnessPeriod >= 0

\* A pull of the _latest packet is in flight.
PullIssued == face.latestPulls > 0

\* C32: with pipeline size 0 and a fair event loop, every outcome of a pull
\* of the _latest packet is followed by a later pull.
C32_PollingNeverStops == PullAnswered ~> PullIssued
====
